---- MODULE Spec2Model ----
(***************************************************************************)
(* A model of the generic CSP engine of generic-csp-go (pkg/csp/csp.go):   *)
(* Problem{Domain, Constraints, SatFn}, AddConstraint, the recursive       *)
(* backtracking Solve with consistent and dup, and of two of its clients:  *)
(* the map-coloring predicate Satisfied and the eight-queens predicate     *)
(* SatisfiesConstraint / checkPosition.                                    *)
(*                                                                         *)
(* A Go map[V]D is a TLA+ function whose DOMAIN is the key set; a Go slice *)
(* is a sequence.  Ranging over a Go map visits the keys in an order the   *)
(* language leaves unspecified and that differs from one range statement   *)
(* to the next, so wherever the code depends on that order the model       *)
(* chooses nondeterministically.                                           *)
(***************************************************************************)
EXTENDS Integers, Sequences, FiniteSets, TLC

(***************************************************************************)
(* Bounds of the model.                                                    *)
(***************************************************************************)
\* how many AddConstraint calls one run makes on the map-coloring Problem
MaxConstraints == 2
\* the largest board (rows = columns = 1..n) the queens client is run on
MaxQueens == 5
\* how many bindings the initial assignment handed to Solve may hold
MaxInitial == 2
\* how many times Solve is called on one Problem
MaxSolves == 2

(***************************************************************************)
(* Program constants and client data.                                      *)
(***************************************************************************)
\* checkPosition's hard-coded board edge
BoardSize == 8

\* the first provinces of the client's Canada list: the variable universe
Canada == <<"Yukon", "British Columbia", "Northwest Territories">>

\* the first colors of the client's Colors list: the value universe
Colors == <<"Red", "Yellow">>

Provinces == {Canada[i] : i \in 1..Len(Canada)}

Range(s) == {s[i] : i \in 1..Len(s)}

\* the domain lists a variable may be declared with: the client's Colors
\* list cut to any length (the empty list included), or reversed
DomainLists ==
    {SubSeq(Colors, 1, n) : n \in 0..Len(Colors)}
        \cup {[i \in 1..Len(Colors) |-> Colors[Len(Colors) + 1 - i]]}

\* the empty Go map
EmptyMap == <<>>

\* m[k] = v on a copy of m (callers copy first, see dup)
Put(m, k, v) == [x \in DOMAIN m \cup {k} |-> IF x = k THEN v ELSE m[x]]

(***************************************************************************)
(* State.                                                                  *)
(***************************************************************************)
VARIABLES
    Domain,       \* Problem.Domain: declared variable -> list of values
    Constraints,  \* Problem.Constraints: variable -> list of constraints
    SatFn,        \* Problem.SatFn: which client predicate New was given
    registered,   \* history: the constraints AddConstraint returned from, in call order
    pc,           \* "ready" | "entry" | "loop" | "ret" | "done" | "panic"
    stack,        \* the active Solve calls, outermost first
    result,       \* the value the last finished Solve call returned
    initial,      \* the assignment the outermost Solve call was given
    panicMsg,     \* what the panic that ended the run reports
    lastAdd,      \* history: the argument of the latest AddConstraint call, <<>> before it
    returned,     \* history: argument and result of every finished outermost Solve call
    checked       \* history: the consistent call of the step just taken, <<>> if it made none

vars == <<Domain, Constraints, SatFn, registered, pc, stack, result, initial,
          panicMsg, lastAdd, returned, checked>>

\* a Go map value that may be nil
NilMap == [nil |-> TRUE, m |-> EmptyMap]
SomeMap(m) == [nil |-> FALSE, m |-> m]

NoPanic == [fn |-> "", var |-> <<>>]

\* Problem.Constraints[v]: a missing key reads as the nil (empty) slice
Bucket(cs, v) == IF v \in DOMAIN cs THEN cs[v] ELSE <<>>

(***************************************************************************)
(* The clients' constraint constructors and predicates.                    *)
(***************************************************************************)
NewBorder(us, them) == [Variables |-> <<us, them>>]

NewQueen(row) == [Variables |-> <<row>>]

\* Satisfied with the comparison of the two colors left out
SatisfiedNoComparison(border, candidate) == TRUE

\* map coloring: the two provinces of a border have different colors
Satisfied(border, candidate) ==
    LET p1 == border.Variables[1]
        p2 == border.Variables[2]
        foundP1 == p1 \in DOMAIN candidate
        foundP2 == p2 \in DOMAIN candidate
    IN  IF ~foundP1 \/ ~foundP2
        THEN TRUE
        ELSE candidate[p1] # candidate[p2]

\* checkPosition looking at the neighbouring square only: it returns true
\* where the code goes on along the line
checkPositionOneStep(qRow, qCol, queens, diffRow, diffCol) ==
    LET qNextRow == qRow + diffRow
        qNextCol == qCol + diffCol
    IN  IF qNextRow < 1 \/ qNextRow > BoardSize THEN TRUE
        ELSE IF qNextCol < 1 \/ qNextCol > BoardSize THEN TRUE
        ELSE qNextRow \notin DOMAIN queens \/ queens[qNextRow] # qNextCol

RECURSIVE checkPosition(_, _, _, _, _)
checkPosition(qRow, qCol, queens, diffRow, diffCol) ==
    LET qNextRow == qRow + diffRow
        qNextCol == qCol + diffCol
    IN  IF qNextRow < 1 \/ qNextRow > BoardSize THEN TRUE
        ELSE IF qNextCol < 1 \/ qNextCol > BoardSize THEN TRUE
        ELSE IF qNextRow \notin DOMAIN queens \/ queens[qNextRow] # qNextCol
             THEN checkPosition(qNextRow, qNextCol, queens, diffRow, diffCol)
             ELSE FALSE

\* eight queens: the queen of the constraint's row is threatened by no other
SatisfiesConstraint(queen, candidate) ==
    LET rowOccupied == queen.Variables[1]
    IN  IF rowOccupied \notin DOMAIN candidate
        THEN TRUE
        ELSE LET colOccupied == candidate[rowOccupied]
             IN  /\ checkPosition(rowOccupied, colOccupied, candidate, 1, 0)
                 /\ checkPosition(rowOccupied, colOccupied, candidate, -1, 0)
                 /\ checkPosition(rowOccupied, colOccupied, candidate, 0, 1)
                 /\ checkPosition(rowOccupied, colOccupied, candidate, 0, -1)
                 /\ checkPosition(rowOccupied, colOccupied, candidate, 1, 1)
                 /\ checkPosition(rowOccupied, colOccupied, candidate, -1, -1)
                 /\ checkPosition(rowOccupied, colOccupied, candidate, 1, -1)
                 /\ checkPosition(rowOccupied, colOccupied, candidate, -1, 1)

\* p.SatFn(constraint, assignment)
ApplySatFn(fn, constraint, assignment) ==
    IF fn = "SatisfiesConstraint"
    THEN SatisfiesConstraint(constraint, assignment)
    ELSE Satisfied(constraint, assignment)

(***************************************************************************)
(* Problem.AddConstraint.                                                  *)
(***************************************************************************)
\* FirstUndeclared reporting the last undeclared variable instead of the first
LastUndeclared(dom, variables) ==
    LET missing == {i \in 1..Len(variables) : variables[i] \notin DOMAIN dom}
    IN  IF missing = {} THEN 0
        ELSE CHOOSE i \in missing : \A j \in missing : i >= j

\* the position in the constraint's list of the first variable that is no
\* key of the domain mapping, 0 when every one is declared
FirstUndeclared(dom, variables) ==
    LET missing == {i \in 1..Len(variables) : variables[i] \notin DOMAIN dom}
    IN  IF missing = {} THEN 0
        ELSE CHOOSE i \in missing : \A j \in missing : i <= j

\* AppendTo putting the constraint at the front of the bucket
PrependTo(cs, v, constraint) ==
    [x \in DOMAIN cs \cup {v} |->
        IF x = v THEN <<constraint>> \o Bucket(cs, v) ELSE cs[x]]

\* p.Constraints[v] = append(p.Constraints[v], constraint)
AppendTo(cs, v, constraint) ==
    [x \in DOMAIN cs \cup {v} |->
        IF x = v THEN Append(Bucket(cs, v), constraint) ELSE cs[x]]

\* a loop that stores the constraint under its first variable only
StoreFirstOnly(cs, constraint, n) ==
    IF n = 0 THEN cs ELSE AppendTo(cs, constraint.Variables[1], constraint)

\* the loop of AddConstraint run over the first n variables of the constraint
RECURSIVE StoreUpTo(_, _, _)
StoreUpTo(cs, constraint, n) ==
    IF n = 0 THEN cs
    ELSE AppendTo(StoreUpTo(cs, constraint, n - 1), constraint.Variables[n], constraint)

AddConstraint(constraint) ==
    /\ pc = "ready"
    /\ lastAdd' = <<constraint>>
    /\ LET miss == FirstUndeclared(Domain, constraint.Variables)
       IN  IF miss = 0
           THEN /\ Constraints' = StoreUpTo(Constraints, constraint, Len(constraint.Variables))
                /\ registered' = Append(registered, constraint)
                /\ UNCHANGED <<pc, panicMsg>>
           ELSE \* the variables before the undeclared one are already stored
                /\ Constraints' = StoreUpTo(Constraints, constraint, miss - 1)
                /\ pc' = "panic"
                /\ panicMsg' = [fn |-> "AddConstraint", var |-> <<constraint.Variables[miss]>>]
                /\ UNCHANGED registered
    /\ UNCHANGED <<Domain, SatFn, stack, result, initial, returned, checked>>

(***************************************************************************)
(* Problem.Solve, one step per action.  A frame of stack is one active     *)
(* call: the assignment it was given, the variable it selected (next, <<>> *)
(* before the selection), the position i in Domain[next] of the value the  *)
(* loop is at, and the candidate of the current iteration.                 *)
(***************************************************************************)
Frame(assignment) ==
    [assignment |-> assignment, next |-> <<>>, i |-> 0, candidate |-> EmptyMap]

Top == stack[Len(stack)]

SetTop(f) == [stack EXCEPT ![Len(stack)] = f]

\* a dup that returns a fresh map without copying the entries
dupLosesEntries(assignment) == EmptyMap

\* utility dup: a new map with the same entries
dup(assignment) == [k \in DOMAIN assignment |-> assignment[k]]

\* the buckets of the first n provinces, one after the other
RECURSIVE BucketsUpTo(_)
BucketsUpTo(n) ==
    IF n = 0 THEN <<>> ELSE BucketsUpTo(n - 1) \o Bucket(Constraints, Canada[n])

\* Evaluations over the constraints of every bucket instead of the bucket
\* of the variable
EvaluationsOfAll(variable, assignment) ==
    LET all == BucketsUpTo(Len(Canada))
        failing == {n \in 1..Len(all) : ~ApplySatFn(SatFn, all[n], assignment)}
        last == IF failing = {} THEN Len(all)
                ELSE CHOOSE n \in failing : \A k \in failing : n <= k
    IN  [n \in 1..last |->
            [constraint |-> all[n],
             value |-> ApplySatFn(SatFn, all[n], assignment)]]

\* the loop of consistent: the constraints of the variable's bucket it hands
\* to p.SatFn, in bucket order up to the first one that is not satisfied,
\* each with the value p.SatFn returned
Evaluations(variable, assignment) ==
    LET bucket == Bucket(Constraints, variable)
        failing == {n \in 1..Len(bucket) : ~ApplySatFn(SatFn, bucket[n], assignment)}
        last == IF failing = {} THEN Len(bucket)
                ELSE CHOOSE n \in failing : \A k \in failing : n <= k
    IN  [n \in 1..last |->
            [constraint |-> bucket[n],
             value |-> ApplySatFn(SatFn, bucket[n], assignment)]]

\* consistent returning after the first constraint of the bucket
consistentFirstOnly(variable, assignment) ==
    LET bucket == Bucket(Constraints, variable)
    IN  \A n \in 1..Len(bucket) : n = 1 => ApplySatFn(SatFn, bucket[n], assignment)

\* Problem.consistent: every constraint of the variable's bucket is satisfied
consistent(variable, assignment) ==
    LET evaluated == Evaluations(variable, assignment)
    IN  \A n \in 1..Len(evaluated) : evaluated[n].value

\* Complete off by one: an assignment one binding short passes for a solution
CompleteOffByOne(assignment) ==
    Cardinality(DOMAIN assignment) + 1 >= Cardinality(DOMAIN Domain)

\* the base-case test: len(assignment) == len(p.Domain)
Complete(assignment) ==
    Cardinality(DOMAIN assignment) = Cardinality(DOMAIN Domain)

\* a selection that ranges over every declared variable, bound or not
UnassignedOrBound(assignment) == DOMAIN Domain

\* an enumeration that counts as assigned only the variables bound since the
\* outermost call, so the variables of the caller's assignment are selected
\* again
UnassignedBySearch(assignment) ==
    {v \in DOMAIN Domain : v \notin (DOMAIN assignment \ DOMAIN initial)}

\* the variables the range over p.Domain finds unassigned
Unassigned(assignment) == {v \in DOMAIN Domain : v \notin DOMAIN assignment}

\* the top call returns r to its caller; the outermost call's return is
\* recorded in returned
Return(r) ==
    /\ result' = r
    /\ stack' = SubSeq(stack, 1, Len(stack) - 1)
    /\ pc' = IF Len(stack) = 1 THEN "done" ELSE "ret"
    /\ returned' = IF Len(stack) = 1
                   THEN Append(returned, [initial |-> initial, result |-> r])
                   ELSE returned
    /\ checked' = <<>>

problem == <<Domain, Constraints, SatFn, registered, lastAdd>>

\* a caller invokes p.Solve(assignment)
Solve(assignment) ==
    /\ pc \in {"ready", "done"}
    /\ stack' = <<Frame(assignment)>>
    /\ initial' = assignment
    /\ pc' = "entry"
    /\ checked' = <<>>
    /\ UNCHANGED <<problem, result, panicMsg, returned>>

\* base case: all variables are assigned
SolveBase ==
    /\ pc = "entry"
    /\ Complete(Top.assignment)
    /\ Return(SomeMap(Top.assignment))
    /\ UNCHANGED <<problem, initial, panicMsg>>

\* enumerate the unassigned variables and take unassigned[0]: the range over
\* the map may put any unassigned variable first; none at all is an index
\* out of range
SolveSelect ==
    /\ pc = "entry"
    /\ ~Complete(Top.assignment)
    /\ IF Unassigned(Top.assignment) = {}
       THEN /\ pc' = "panic"
            /\ panicMsg' = [fn |-> "Solve", var |-> <<>>]
            /\ UNCHANGED stack
       ELSE /\ \E next \in Unassigned(Top.assignment) :
                  stack' = SetTop([Top EXCEPT !.next = <<next>>, !.i = 1])
            /\ pc' = "loop"
            /\ UNCHANGED panicMsg
    /\ checked' = <<>>
    /\ UNCHANGED <<problem, result, initial, returned>>

\* SolveTry binding in the call's own assignment and not undoing it: after
\* an inconsistent value the rejected binding stays
SolveTryKeepsBinding ==
    /\ pc = "loop"
    /\ Top.i <= Len(Domain[Top.next[1]])
    /\ LET next == Top.next[1]
           candidate == Put(dup(Top.assignment), next, Domain[next][Top.i])
       IN  /\ IF consistent(next, candidate)
              THEN /\ stack' = Append(SetTop([Top EXCEPT !.candidate = candidate]),
                                      Frame(candidate))
                   /\ pc' = "entry"
              ELSE /\ stack' = SetTop([Top EXCEPT !.candidate = candidate,
                                                  !.assignment = candidate,
                                                  !.i = @ + 1])
                   /\ pc' = "loop"
           /\ checked' = <<[variable |-> next, assignment |-> candidate,
                            log |-> Evaluations(next, candidate)]>>
    /\ UNCHANGED <<problem, result, initial, panicMsg, returned>>

\* SolveTry walking the domain list from its end
SolveTryBackwards ==
    /\ pc = "loop"
    /\ Top.i <= Len(Domain[Top.next[1]])
    /\ LET next == Top.next[1]
           candidate == Put(dup(Top.assignment), next,
                            Domain[next][Len(Domain[next]) + 1 - Top.i])
       IN  /\ IF consistent(next, candidate)
              THEN /\ stack' = Append(SetTop([Top EXCEPT !.candidate = candidate]),
                                      Frame(candidate))
                   /\ pc' = "entry"
              ELSE /\ stack' = SetTop([Top EXCEPT !.candidate = candidate, !.i = @ + 1])
                   /\ pc' = "loop"
           /\ checked' = <<[variable |-> next, assignment |-> candidate,
                            log |-> Evaluations(next, candidate)]>>
    /\ UNCHANGED <<problem, result, initial, panicMsg, returned>>

\* SolveTry whose lookup of p.Constraints[next] in consistent stores the
\* bucket it read, creating an empty bucket for a variable that had none
SolveTryStoresBucket ==
    /\ pc = "loop"
    /\ Top.i <= Len(Domain[Top.next[1]])
    /\ LET next == Top.next[1]
           candidate == Put(dup(Top.assignment), next, Domain[next][Top.i])
       IN  /\ IF consistent(next, candidate)
              THEN /\ stack' = Append(SetTop([Top EXCEPT !.candidate = candidate]),
                                      Frame(candidate))
                   /\ pc' = "entry"
              ELSE /\ stack' = SetTop([Top EXCEPT !.candidate = candidate, !.i = @ + 1])
                   /\ pc' = "loop"
           /\ checked' = <<[variable |-> next, assignment |-> candidate,
                            log |-> Evaluations(next, candidate)]>>
           /\ Constraints' = Put(Constraints, next, Bucket(Constraints, next))
    /\ UNCHANGED <<Domain, SatFn, registered, lastAdd, result, initial, panicMsg, returned>>

\* one iteration of the loop over p.Domain[next], up to the recursive call
SolveTry ==
    /\ pc = "loop"
    /\ Top.i <= Len(Domain[Top.next[1]])
    /\ LET next == Top.next[1]
           candidate == Put(dup(Top.assignment), next, Domain[next][Top.i])
       IN  IF consistent(next, candidate)
           THEN /\ stack' = Append(SetTop([Top EXCEPT !.candidate = candidate]),
                                   Frame(candidate))
                /\ pc' = "entry"
           ELSE /\ stack' = SetTop([Top EXCEPT !.candidate = candidate, !.i = @ + 1])
                /\ pc' = "loop"
    /\ checked' = <<[variable |-> Top.next[1],
                     assignment |-> Put(dup(Top.assignment), Top.next[1],
                                        Domain[Top.next[1]][Top.i]),
                     log |-> Evaluations(Top.next[1],
                                         Put(dup(Top.assignment), Top.next[1],
                                             Domain[Top.next[1]][Top.i]))]>>
    /\ UNCHANGED <<problem, result, initial, panicMsg, returned>>

\* SolveResume without the nil test: whatever the recursive call returned
\* is returned, so the loop never moves to a second value after a descent
SolveResumeGivesUp ==
    /\ pc = "ret"
    /\ Return(result)
    /\ UNCHANGED <<problem, initial, panicMsg>>

\* the recursive call returned: a non-nil result is returned at once,
\* nil moves the loop to the next value
SolveResume ==
    /\ pc = "ret"
    /\ IF ~result.nil
       THEN Return(result)
       ELSE /\ stack' = SetTop([Top EXCEPT !.i = @ + 1])
            /\ pc' = "loop"
            /\ checked' = <<>>
            /\ UNCHANGED <<result, returned>>
    /\ UNCHANGED <<problem, initial, panicMsg>>

\* SolveExhausted returning the assignment it was given instead of nil
SolveExhaustedReturnsAssignment ==
    /\ pc = "loop"
    /\ Top.i > Len(Domain[Top.next[1]])
    /\ Return(SomeMap(Top.assignment))
    /\ UNCHANGED <<problem, initial, panicMsg>>

\* the loop ran out of values: return nil
SolveExhausted ==
    /\ pc = "loop"
    /\ Top.i > Len(Domain[Top.next[1]])
    /\ Return(NilMap)
    /\ UNCHANGED <<problem, initial, panicMsg>>

SolveStep == SolveBase \/ SolveSelect \/ SolveTry \/ SolveResume \/ SolveExhausted

(***************************************************************************)
(* csp.New and the state it leaves.                                        *)
(***************************************************************************)
New(domain, satFn) == [Domain |-> domain, Constraints |-> EmptyMap, SatFn |-> satFn]

InitProblem(p) ==
    /\ Domain = p.Domain
    /\ Constraints = p.Constraints
    /\ SatFn = p.SatFn
    /\ registered = <<>>
    /\ pc = "ready"
    /\ stack = <<>>
    /\ result = NilMap
    /\ initial = EmptyMap
    /\ panicMsg = NoPanic
    /\ lastAdd = <<>>
    /\ returned = <<>>
    /\ checked = <<>>

(***************************************************************************)
(* The map-coloring family: a Problem over the first provinces of Canada,  *)
(* each with a domain list of its own, the predicate Satisfied, and        *)
(* constraints over any two provinces (declared or not) or over none.      *)
(* Spec calls Solve once with the empty assignment, SpecInitial once with  *)
(* any small assignment, SpecRepeat up to MaxSolves times with the empty   *)
(* assignment.                                                             *)
(***************************************************************************)
Domains ==
    UNION {[{Canada[i] : i \in 1..k} -> DomainLists] : k \in 0..Len(Canada)}

ConstraintInputs ==
    {[Variables |-> <<>>]} \cup {NewBorder(us, them) : us, them \in Provinces}

Assignments ==
    {a \in UNION {[S -> Range(Colors)] : S \in SUBSET Provinces} :
        Cardinality(DOMAIN a) <= MaxInitial}

Init == \E domain \in Domains : InitProblem(New(domain, "Satisfied"))

Register ==
    /\ Len(registered) < MaxConstraints
    /\ \E constraint \in ConstraintInputs : AddConstraint(constraint)

Call ==
    /\ returned = <<>>
    /\ Solve(EmptyMap)

Next == Register \/ Call \/ SolveStep

Spec == Init /\ [][Next]_vars

\* a call of Solve is a sequential Go function: once it is entered, the
\* goroutine keeps executing its steps
SpecFair == Init /\ [][Next]_vars /\ WF_vars(SolveStep)

CallInitial ==
    /\ returned = <<>>
    /\ \E assignment \in Assignments : Solve(assignment)

NextInitial == Register \/ CallInitial \/ SolveStep

SpecInitial == Init /\ [][NextInitial]_vars

CallAgain ==
    /\ Len(returned) < MaxSolves
    /\ Solve(EmptyMap)

NextRepeat == Register \/ CallAgain \/ SolveStep

SpecRepeat == Init /\ [][NextRepeat]_vars

(***************************************************************************)
(* The queens client's main on a board of n rows and n columns: one        *)
(* constraint per row, registered in the order of the Constraints list,    *)
(* then Solve with the empty assignment.                                   *)
(***************************************************************************)
Queens(n) == [i \in 1..n |-> i]

Columns(n) == [i \in 1..n |-> i]

QueensDomain(n) == [q \in Range(Queens(n)) |-> Columns(n)]

InitQueens ==
    \E n \in 1..MaxQueens : InitProblem(New(QueensDomain(n), "SatisfiesConstraint"))

RegisterQueens ==
    /\ Len(registered) < Cardinality(DOMAIN Domain)
    /\ AddConstraint(NewQueen(Len(registered) + 1))

CallQueens ==
    /\ Len(registered) = Cardinality(DOMAIN Domain)
    /\ returned = <<>>
    /\ Solve(EmptyMap)

NextQueens == RegisterQueens \/ CallQueens \/ SolveStep

SpecQueens == InitQueens /\ [][NextQueens]_vars

(***************************************************************************)
(* Properties.                                                             *)
(***************************************************************************)
\* the finished Solve calls that were given the empty assignment
FromEmpty == {k \in 1..Len(returned) : returned[k].initial = EmptyMap}

\* the constraints held by the Problem's index
Indexed == UNION {Range(Constraints[v]) : v \in DOMAIN Constraints}

\* the complete assignments, one value of its own domain list per declared
\* variable, that give the two provinces of every indexed border different
\* colors
Solutions ==
    {a \in [DOMAIN Domain -> Range(Colors)] :
        /\ \A v \in DOMAIN Domain : a[v] \in Range(Domain[v])
        /\ \A c \in Indexed : a[c.Variables[1]] # a[c.Variables[2]]}

\* C1: an assignment Solve returns from the empty assignment makes the
\* predicate of every constraint of the Problem true; for map coloring, the
\* two provinces of every registered border have different colors.
C1_ResultSatisfiesConstraints ==
    \A k \in FromEmpty :
        ~returned[k].result.nil =>
            \A c \in Indexed :
                /\ ApplySatFn(SatFn, c, returned[k].result.m)
                /\ SatFn = "Satisfied" =>
                      /\ Range(c.Variables) \subseteq DOMAIN returned[k].result.m
                      /\ returned[k].result.m[c.Variables[1]]
                            # returned[k].result.m[c.Variables[2]]

\* a solution of a Problem with three provinces and two borders that meet in
\* one of them
C1_Witness ==
    /\ returned # <<>>
    /\ ~returned[1].result.nil
    /\ Cardinality(DOMAIN Domain) = 3
    /\ \E v \in DOMAIN Constraints :
          /\ Len(Constraints[v]) = 2
          /\ Constraints[v][1] # Constraints[v][2]
          /\ \A n \in 1..2 : Cardinality(Range(Constraints[v][n].Variables)) = 2

\* C2: an assignment Solve returns from the empty assignment has as many
\* entries as there are declared variables and binds every declared variable.
C2_ResultBindsEveryVariable ==
    \A k \in FromEmpty :
        ~returned[k].result.nil =>
            /\ Cardinality(DOMAIN returned[k].result.m) = Cardinality(DOMAIN Domain)
            /\ \A v \in DOMAIN Domain : v \in DOMAIN returned[k].result.m

C2_Witness ==
    /\ returned # <<>>
    /\ ~returned[1].result.nil
    /\ Cardinality(DOMAIN Domain) = 3
    /\ Cardinality(DOMAIN returned[1].result.m) = 3

\* C3: completeness under the predicate Satisfied (which reads only the
\* constraint's own variables and is true while one is unbound): when some
\* complete assignment satisfies every constraint, Solve called with the
\* empty assignment does not return nil; and the outermost call returns nil
\* only from the end of its loop, past the last value of its variable, the
\* loop having moved over the values one at a time.
C3_Complete ==
    /\ [](\A k \in FromEmpty : Solutions # {} => ~returned[k].result.nil)
    /\ [][(pc' = "done" /\ result'.nil /\ initial = EmptyMap) =>
            /\ pc = "loop"
            /\ Len(stack) = 1
            /\ Top.i = Len(Domain[Top.next[1]]) + 1]_vars
    /\ [][(stack # <<>> /\ stack' # <<>> /\ stack[1].next # <<>>) =>
            /\ stack'[1].next = stack[1].next
            /\ stack'[1].i \in {stack[1].i, stack[1].i + 1}]_vars

\* a satisfiable Problem whose first candidate does not always work: three
\* provinces, two of them with one color only, two proper borders
C3_Witness ==
    /\ returned # <<>>
    /\ ~returned[1].result.nil
    /\ Cardinality(DOMAIN Domain) = 3
    /\ Cardinality(Solutions) = 1
    /\ Len(registered) = 2
    /\ \A n \in 1..2 : Cardinality(Range(registered[n].Variables)) = 2
    /\ \E v \in DOMAIN Domain :
          Len(Domain[v]) = 2 /\ returned[1].result.m[v] = Domain[v][2]

\* C4: when no complete assignment satisfies every constraint, Solve called
\* with the empty assignment returns nil.
C4_UnsatisfiableReturnsNil ==
    \A k \in FromEmpty : Solutions = {} => returned[k].result.nil

\* the example of the specification: two variables with the one-value domain
\* {Red} and a border between them
C4_Witness ==
    /\ returned # <<>>
    /\ returned[1].result.nil
    /\ DOMAIN Domain = {Canada[1], Canada[2]}
    /\ Domain[Canada[1]] = <<"Red">>
    /\ Domain[Canada[2]] = <<"Red">>
    /\ registered = <<NewBorder(Canada[1], Canada[2])>>

\* C5: a failed AddConstraint leaves every index bucket as it was before
\* the call.
C5_NoPartialRegistration ==
    [][(pc' = "panic" /\ panicMsg'.fn = "AddConstraint") =>
          \A v \in Provinces : Bucket(Constraints', v) = Bucket(Constraints, v)]_vars

\* C6: every call of Solve with the empty assignment on the same Problem
\* returns the same assignment, or nil every time.
C6_Deterministic ==
    \A j, k \in FromEmpty : returned[j].result = returned[k].result

\* C7: AddConstraint panics exactly when a variable of the constraint's list
\* is no key of the domain mapping, it does so in the registration call (no
\* Solve call is active or finished), and the panic names the first such
\* variable of the list.
C7_FailsIffUndeclared ==
    lastAdd # <<>> =>
        LET variables == lastAdd[1].Variables
            failed == panicMsg.fn = "AddConstraint"
        IN  /\ failed <=> \E i \in 1..Len(variables) : variables[i] \notin DOMAIN Domain
            /\ failed =>
                  /\ pc = "panic"
                  /\ stack = <<>>
                  /\ returned = <<>>
                  /\ \E i \in 1..Len(variables) :
                        /\ panicMsg.var = <<variables[i]>>
                        /\ variables[i] \notin DOMAIN Domain
                        /\ \A j \in 1..(i - 1) : variables[j] \in DOMAIN Domain

\* a failed call whose constraint lists two different undeclared provinces
C7_Witness ==
    /\ panicMsg.fn = "AddConstraint"
    /\ Len(lastAdd[1].Variables) = 2
    /\ lastAdd[1].Variables[1] # lastAdd[1].Variables[2]
    /\ \A i \in 1..2 : lastAdd[1].Variables[i] \notin DOMAIN Domain

\* C8: Solve never aborts, whatever assignment it is called with.
C8_SolveNeverAborts == panicMsg.fn # "Solve"

\* C9: after successful AddConstraint calls only, the bucket of every
\* declared variable v holds exactly the registered constraints that list v,
\* in registration order (each once per occurrence of v in its list), and a
\* constraint over n distinct variables is in exactly n buckets.
Occurrences(v, variables) == Cardinality({i \in 1..Len(variables) : variables[i] = v})

Repeat(c, n) == [i \in 1..n |-> c]

RECURSIVE ListingInOrder(_, _)
ListingInOrder(v, n) ==
    IF n = 0 THEN <<>>
    ELSE ListingInOrder(v, n - 1)
            \o Repeat(registered[n], Occurrences(v, registered[n].Variables))

C9_BucketsIndexRegistered ==
    panicMsg.fn # "AddConstraint" =>
        /\ \A v \in DOMAIN Domain :
              /\ Bucket(Constraints, v) = ListingInOrder(v, Len(registered))
              /\ Range(Bucket(Constraints, v))
                    = {registered[n] : n \in {k \in 1..Len(registered) :
                                                v \in Range(registered[k].Variables)}}
        /\ DOMAIN Constraints \subseteq DOMAIN Domain
        /\ \A n \in 1..Len(registered) :
              Cardinality({v \in DOMAIN Domain : registered[n] \in Range(Bucket(Constraints, v))})
                  = Cardinality(Range(registered[n].Variables))

\* two different borders registered that share a province
C9_Witness ==
    /\ pc = "ready"
    /\ Len(registered) = 2
    /\ registered[1] # registered[2]
    /\ \E v \in DOMAIN Domain :
          /\ Len(Bucket(Constraints, v)) = 2
          /\ \A n \in 1..2 : Cardinality(Range(registered[n].Variables)) = 2

\* C10: an assignment the queens client gets from Solve has no two rows
\* whose queens share a column or a diagonal.
C10_NoQueenAttacks ==
    \A k \in FromEmpty :
        ~returned[k].result.nil =>
            LET queens == returned[k].result.m
            IN  \A r1, r2 \in DOMAIN queens :
                    r1 < r2 =>
                        /\ queens[r1] # queens[r2]
                        /\ queens[r2] - queens[r1] # r2 - r1
                        /\ queens[r1] - queens[r2] # r2 - r1

\* a solved board of at least four rows
C10_Witness ==
    /\ returned # <<>>
    /\ ~returned[1].result.nil
    /\ Cardinality(DOMAIN returned[1].result.m) >= 4

\* C11: when some declared variable has an empty domain list, Solve called
\* with the empty assignment returns nil, whatever the other domains and the
\* constraints are and in whatever order the variables are selected.
C11_EmptyDomainReturnsNil ==
    \A k \in FromEmpty :
        (\E v \in DOMAIN Domain : Domain[v] = <<>>) => returned[k].result.nil

\* nil from a Problem without constraints whose only obstacle is the empty
\* domain list of one of three provinces
C11_Witness ==
    /\ returned # <<>>
    /\ returned[1].result.nil
    /\ Indexed = {}
    /\ Cardinality(DOMAIN Domain) = 3
    /\ Cardinality({v \in DOMAIN Domain : Domain[v] = <<>>}) = 1
    /\ \E v \in DOMAIN Domain : Len(Domain[v]) = 2

\* the first variable, in the order the client declares them (its Canada
\* list), that the assignment does not bind
FirstInDeclarationOrder(assignment) ==
    LET open == {n \in 1..Len(Canada) : Canada[n] \in Unassigned(assignment)}
    IN  Canada[CHOOSE n \in open : \A k \in open : n <= k]

\* C12: the variable every active Solve call has selected is the first
\* unassigned variable in declaration order, so a partial assignment
\* determines the variable selected under it.
C12_StaticSelectionOrder ==
    \A j \in 1..Len(stack) :
        stack[j].next # <<>> =>
            stack[j].next[1] = FirstInDeclarationOrder(stack[j].assignment)

\* C13: Solve hands its input back as the solution (no variable bound, no
\* predicate evaluated) only when the input binds every declared variable,
\* whatever keys the input holds.
C13_ImmediateReturnOnlyWhenComplete ==
    \A k \in 1..Len(returned) :
        (~returned[k].result.nil /\ returned[k].result.m = returned[k].initial) =>
            \A v \in DOMAIN Domain : v \in DOMAIN returned[k].initial

\* the candidate the call of frame f built last: its assignment plus the
\* binding of its variable to the value at position n of the domain list
CandidateAt(f, n) == Put(f.assignment, f.next[1], Domain[f.next[1]][n])

\* C14: the assignment an active call works from is the one it was called
\* with, at every step: each candidate is that assignment plus the one
\* binding under trial, so after an inconsistent value or a failed recursion
\* the next candidate carries no trace of the failed binding, and a call that
\* returns nil leaves its caller's assignment as it was.  The assignment of
\* the innermost call holds exactly the bindings of the active path.
C14_AssignmentIsActivePath ==
    /\ [](\A j \in 1..Len(stack) :
            /\ j = 1 => stack[j].assignment = initial
            /\ j > 1 =>
                  /\ stack[j].assignment = stack[j - 1].candidate
                  /\ stack[j - 1].next[1] \notin DOMAIN stack[j - 1].assignment
                  /\ stack[j - 1].candidate = CandidateAt(stack[j - 1], stack[j - 1].i)
            /\ (j = Len(stack) /\ pc = "loop" /\ stack[j].i > 1) =>
                  stack[j].candidate = CandidateAt(stack[j], stack[j].i - 1))
    /\ [][\A j \in 1..Len(stack) :
            j <= Len(stack') => stack'[j].assignment = stack[j].assignment]_vars

\* a nested call has just returned nil to a caller that is itself nested
C14_Witness ==
    /\ pc = "ret"
    /\ result.nil
    /\ Len(stack) >= 2
    /\ Top.i < Len(Domain[Top.next[1]])

\* some solution of the Problem agrees with the assignment on all its keys
Extends(assignment) ==
    \E s \in Solutions : \A v \in DOMAIN assignment : v \in DOMAIN s /\ s[v] = assignment[v]

\* C15: the loop of a call takes the values of its variable in domain-list
\* order, one position at a time from the first; when the recursion under a
\* value returns a solution the call returns it in its next step, trying no
\* further value; and the value that solution gives the variable is the
\* earliest of its domain list that extends the call's assignment to a
\* solution.
C15_FirstValueInListOrder ==
    /\ [][/\ \A j \in 1..Len(stack) :
                (j <= Len(stack') /\ stack[j].next # <<>>) =>
                    /\ stack'[j].next = stack[j].next
                    /\ stack'[j].i \in {stack[j].i, stack[j].i + 1}
          /\ (pc = "entry" /\ pc' = "loop") => stack'[Len(stack')].i = 1
          /\ (pc = "loop" /\ checked' # <<>>) =>
                checked'[1].assignment[Top.next[1]] = Domain[Top.next[1]][Top.i]
          /\ (pc = "ret" /\ ~result.nil) =>
                /\ Len(stack') = Len(stack) - 1
                /\ result' = result
                /\ checked' = <<>>]_vars
    /\ [](pc = "ret" /\ ~result.nil =>
            /\ result.m[Top.next[1]] = Domain[Top.next[1]][Top.i]
            /\ Extends(CandidateAt(Top, Top.i))
            /\ \A n \in 1..(Top.i - 1) : ~Extends(CandidateAt(Top, n)))

\* a solution came back under the second value of a list whose first value
\* had been tried first
C15_Witness ==
    /\ pc = "ret"
    /\ ~result.nil
    /\ Top.i = 2
    /\ Len(stack) >= 2

\* C16: the predicate evaluations of a step are on constraints of the bucket
\* of the variable the step binds, taken in bucket order, each listing that
\* variable, against the assignment that holds the new binding; and the
\* binding is accepted (Solve recurses) exactly when every constraint of that
\* bucket is satisfied by that assignment.
C16_LocalConsistencyCheck ==
    checked # <<>> =>
        LET try == checked[1]
            caller == IF pc = "entry" THEN stack[Len(stack) - 1] ELSE Top
            bucket == Bucket(Constraints, try.variable)
        IN  /\ pc \in {"entry", "loop"}
            /\ try.variable = caller.next[1]
            /\ try.assignment = caller.candidate
            /\ try.variable \in DOMAIN try.assignment
            /\ Len(try.log) <= Len(bucket)
            /\ \A n \in 1..Len(try.log) :
                  /\ try.log[n].constraint = bucket[n]
                  /\ try.variable \in Range(try.log[n].constraint.Variables)
                  /\ try.log[n].value = ApplySatFn(SatFn, bucket[n], try.assignment)
            /\ pc = "entry" <=>
                  \A n \in 1..Len(bucket) : ApplySatFn(SatFn, bucket[n], try.assignment)

\* a binding rejected by the second constraint of a bucket of two, after the
\* first was found satisfied
C16_Witness ==
    /\ checked # <<>>
    /\ pc = "loop"
    /\ Len(checked[1].log) = 2
    /\ checked[1].log[1].value
    /\ ~checked[1].log[2].value

\* C17: every constraint AddConstraint accepted (it returned without a panic)
\* has a non-empty variable list, and every member of the list is a declared
\* variable; a constraint with an empty list is never accepted silently.
C17_AcceptedConstraintsNonEmpty ==
    \A n \in 1..Len(registered) :
        /\ registered[n].Variables # <<>>
        /\ Range(registered[n].Variables) \subseteq DOMAIN Domain

\* C18: Solve called with the empty assignment terminates (every call that
\* is entered comes to return), and the number of nested active calls never
\* exceeds the number of declared variables plus one, the base-case call.
C18_TerminatesWithinDepth ==
    /\ [](Len(stack) <= Cardinality(DOMAIN Domain) + 1)
    /\ (stack # <<>>) ~> (pc = "done" /\ stack = <<>> /\ returned # <<>>)

\* the deepest recursion over all three provinces: the base-case call is
\* active below one call per declared variable
C18_Witness ==
    /\ Cardinality(DOMAIN Domain) = Len(Canada)
    /\ Len(stack) = Len(Canada) + 1
    /\ Complete(Top.assignment)
    /\ \A j \in 1..Len(Canada) : stack[j].next # <<>>

\* C19: in every Solve call reached from the empty assignment, the size of
\* the assignment equals the recursion depth (0 for the outermost call),
\* every key is a declared variable bound to a value of its own domain list,
\* and each nested call's assignment is its parent's plus exactly one
\* binding, of the variable the parent selected, which the parent had not
\* bound.
C19_AssignmentSizeIsDepth ==
    \A j \in 1..Len(stack) :
        LET assignment == stack[j].assignment
        IN  /\ Cardinality(DOMAIN assignment) = j - 1
            /\ DOMAIN assignment \subseteq DOMAIN Domain
            /\ \A k \in DOMAIN assignment : assignment[k] \in Range(Domain[k])
            /\ j > 1 =>
                  LET parent == stack[j - 1]
                  IN  /\ parent.next # <<>>
                      /\ parent.next[1] \notin DOMAIN parent.assignment
                      /\ DOMAIN assignment = DOMAIN parent.assignment \cup {parent.next[1]}
                      /\ \A k \in DOMAIN parent.assignment :
                            assignment[k] = parent.assignment[k]

\* a call at depth two whose two bindings, of bordering provinces, differ
C19_Witness ==
    /\ Len(stack) = 3
    /\ registered # <<>>
    /\ Cardinality(DOMAIN Top.assignment) = 2
    /\ \E k, l \in DOMAIN Top.assignment : Top.assignment[k] # Top.assignment[l]

\* C20: Solve never modifies the Problem: no step of a Solve call, from its
\* entry to its return, successful or not, changes the domain mapping (keys
\* and value lists) or any bucket of the constraint index.
C20_SolveLeavesProblemUnchanged ==
    [][(stack # <<>> \/ stack' # <<>>) =>
          /\ Domain' = Domain
          /\ Constraints' = Constraints
          /\ SatFn' = SatFn]_vars

\* a successful Solve over three provinces has returned, with a bucket of two
\* constraints in the index and a province that has no bucket
C20_Witness ==
    /\ returned # <<>>
    /\ ~returned[1].result.nil
    /\ stack = <<>>
    /\ Cardinality(DOMAIN Domain) = Len(Canada)
    /\ \E v \in DOMAIN Constraints : Len(Constraints[v]) = 2
    /\ \E v \in DOMAIN Domain : v \notin DOMAIN Constraints

\* C21: with a predicate that reads only the variables of its constraint and
\* is true while one of them is unbound (Satisfied is such a predicate), every
\* assignment an active Solve call was given, starting from the empty
\* assignment, makes the predicate of every registered constraint true, those
\* outside the bucket of the most recently bound variable included.
C21_ActiveAssignmentsSatisfyAll ==
    \A j \in 1..Len(stack) :
        \A n \in 1..Len(registered) :
            registered[n].Variables # <<>> =>
                ApplySatFn(SatFn, registered[n], stack[j].assignment)

\* a call whose assignment binds both provinces of a registered border, the
\* most recently bound province being neither of them
C21_Witness ==
    /\ Len(stack) = Len(Canada) + 1
    /\ \E n \in 1..Len(registered) :
          /\ registered[n].Variables # <<>>
          /\ Range(registered[n].Variables) \subseteq DOMAIN Top.assignment
          /\ registered[n].Variables[1] # registered[n].Variables[2]
          /\ stack[Len(stack) - 1].next[1] \notin Range(registered[n].Variables)

\* the outermost call was given a non-empty assignment over declared variables
GivenDeclared(assignment) ==
    /\ assignment # EmptyMap
    /\ DOMAIN assignment \subseteq DOMAIN Domain

\* C22: when Solve is called with a non-empty initial assignment over
\* declared variables, a non-nil result agrees with the initial assignment on
\* every initially bound variable; the caller's map, the assignment of the
\* outermost call, keeps its entries while the call runs and every nested
\* call's assignment extends it; and consistent is only ever asked about a
\* variable the search bound, with constraints of that variable's bucket, so
\* the initial bindings are never checked on their own.
C22_InitialAssignmentKept ==
    /\ \A j \in 1..Len(returned) :
          (GivenDeclared(returned[j].initial) /\ ~returned[j].result.nil) =>
              \A k \in DOMAIN returned[j].initial :
                  /\ k \in DOMAIN returned[j].result.m
                  /\ returned[j].result.m[k] = returned[j].initial[k]
    /\ (GivenDeclared(initial) /\ stack # <<>>) =>
          /\ stack[1].assignment = initial
          /\ \A j \in 1..Len(stack) : \A k \in DOMAIN initial :
                /\ k \in DOMAIN stack[j].assignment
                /\ stack[j].assignment[k] = initial[k]
                /\ stack[j].next # <<k>>
    /\ (GivenDeclared(initial) /\ checked # <<>>) =>
          /\ checked[1].variable \notin DOMAIN initial
          /\ \A k \in DOMAIN initial : checked[1].assignment[k] = initial[k]
          /\ \A n \in 1..Len(checked[1].log) :
                checked[1].log[n].constraint
                    \in Range(Bucket(Constraints, checked[1].variable))

\* a call given two bordering provinces in the same color returned a
\* coloring of all three provinces that keeps both bindings, although the
\* border between the two is registered
C22_Witness ==
    /\ returned # <<>>
    /\ Cardinality(DOMAIN Domain) = Len(Canada)
    /\ LET given == returned[1].initial
           r == returned[1].result
       IN  /\ GivenDeclared(given)
           /\ Cardinality(DOMAIN given) = 2
           /\ ~r.nil
           /\ r.m # given
           /\ \E n \in 1..Len(registered) :
                 /\ registered[n].Variables # <<>>
                 /\ Range(registered[n].Variables) = DOMAIN given
                 /\ ~ApplySatFn(SatFn, registered[n], r.m)

====
